---- MODULE Spec2Model ----
(***************************************************************************)
(* A model of docs/create-gif.py: the import guard, create_frame, and the  *)
(* two trajectory loops and the save of main().                            *)
(*                                                                         *)
(* The script takes no input. What it does depends on two facts of its     *)
(* environment only: whether Pillow can be imported (pilAvailable) and     *)
(* whether the Menlo font file can be opened (menloAvailable).             *)
(*                                                                         *)
(* Spec is the script as written: both loops start from the literal 1000.  *)
(* SpecSweep runs the same actions with the literal the loops start from   *)
(* drawn from StartQuantities (1000 among them), so that every branch of   *)
(* the status classification, of the reduction chain and of the early      *)
(* break is taken; every behaviour of Spec is a behaviour of SpecSweep.    *)
(*                                                                         *)
(* Emoji in the printed strings and strategy labels are left out; the      *)
(* labels are the words that follow them.                                  *)
(***************************************************************************)
EXTENDS Integers, Sequences, FiniteSets, TLC

VARIABLES
    pc,             \* position in the script
    pilAvailable,   \* environment: `from PIL import ...` succeeds
    menloAvailable, \* environment: ImageFont.truetype(Menlo.ttc) succeeds
    tokens0,        \* the quantity both loops start from (1000 in the source)
    step,           \* loop variable of the running for loop (0: not yet bound)
    tokens,         \* main's local `tokens`
    strategy,       \* main's local `strategy`
    status,         \* main's local `status`
    rendering,      \* the create_frame call in progress, NoCall when none is
    calls,          \* number of create_frame calls begun so far
    frames,         \* main's local list `frames`
    gif,            \* the output file, NoFile until it is written
    writes,         \* number of times the output file has been written
    stdout,         \* the lines printed so far
    exitCode        \* -1 while running, then the process's exit status

vars == <<pc, pilAvailable, menloAvailable, tokens0, step, tokens, strategy,
          status, rendering, calls, frames, gif, writes, stdout, exitCode>>

---------------------------------------------------------------------------
(* Program constants *)

StartTokens == 1000
BaseIncrement == 1500
StepIncrement == 100
LastStep == 20
FailThreshold == 100000
WarnThreshold == 80000
bar_width == 1100
max_tokens == 100000
bar_x == 20
FrameDuration == 300
FrameLoop == 0

(* Bounds of the sweep over starting quantities *)

StartGrid == 10000
MaxStartK == 50

StartQuantities == {StartTokens} \cup {k * StartGrid : k \in 0..MaxStartK}

None == "None"

NoCall == [active |-> FALSE, step |-> 0, tokens |-> 0, strategy |-> None,
           status |-> None, is_with_cm |-> FALSE]

NoFile == [exists |-> FALSE, frames |-> <<>>, duration |-> 0, loop |-> 0]

Min(a, b) == IF a < b THEN a ELSE b

---------------------------------------------------------------------------
(* Pure parts of the script *)

\* Increment with the step left out of the product.
IncrementFlat(s) == BaseIncrement + StepIncrement

\* `1500 + (step * 100)`, the growth added at every step of both loops.
Increment(s) == BaseIncrement + (s * StepIncrement)

\* `"FAILED" if tokens > 100000 else "WARNING" if tokens > 80000 else "OK"`
StatusOf(t) ==
    IF t > FailThreshold THEN "FAILED"
    ELSE IF t > WarnThreshold THEN "WARNING"
    ELSE "OK"

\* int(tokens * 0.85), int(tokens * 0.75), int(tokens * 0.60): the float
\* product truncated. For every tokens in 0..1000000 the truncated double
\* product equals the exact floor of tokens * percent / 100.
Scale(t, percent) == (t * percent) \div 100

\* Reduce with the COMPACT branch tested before the SUMMARIZE branch.
ReduceCompactFirst(t, s) ==
    IF t > 60000 /\ s >= 5 THEN [tokens |-> Scale(t, 85), strategy |-> "OFFLOAD"]
    ELSE IF t > 40000 /\ s >= 3 THEN [tokens |-> Scale(t, 60), strategy |-> "COMPACT"]
    ELSE IF t > 50000 /\ s % 5 = 0 THEN [tokens |-> Scale(t, 75), strategy |-> "SUMMARIZE"]
    ELSE IF t > 30000 THEN [tokens |-> Scale(t, 75), strategy |-> "FILTER"]
    ELSE [tokens |-> t, strategy |-> None]

\* The if/elif chain of the mitigated loop: the reduced quantity and the
\* strategy label, None when no branch is taken.
Reduce(t, s) ==
    IF t > 60000 /\ s >= 5 THEN [tokens |-> Scale(t, 85), strategy |-> "OFFLOAD"]
    ELSE IF t > 50000 /\ s % 5 = 0 THEN [tokens |-> Scale(t, 75), strategy |-> "SUMMARIZE"]
    ELSE IF t > 40000 /\ s >= 3 THEN [tokens |-> Scale(t, 60), strategy |-> "COMPACT"]
    ELSE IF t > 30000 THEN [tokens |-> Scale(t, 75), strategy |-> "FILTER"]
    ELSE [tokens |-> t, strategy |-> None]

\* RawFill with the truncation applied to the quotient instead of the product.
RawFillTruncFirst(t) == (t \div max_tokens) * bar_width

\* int((tokens / max_tokens) * bar_width): a float division, a float
\* product, then truncation. For tokens in 0..100000 the result is the exact
\* floor of tokens * 1100 / 100000 except at tokens = 69000, where
\* 0.69 * 1100 is the double 758.9999999999999 and truncates to 758. Above
\* 100000 the few values where the double falls short are all clamped.
RawFill(t) ==
    IF t = 69000 THEN 758 ELSE (t * bar_width) \div max_tokens

fill_width(t) == Min(RawFill(t), bar_width)

fill_color(t) ==
    IF t > 80000 THEN "#f48771"
    ELSE IF t > 50000 THEN "#dcdcaa"
    ELSE "#4ec9b0"

status_color(st) ==
    IF st = "OK" THEN "#4ec9b0"
    ELSE IF st = "FAILED" THEN "#f48771"
    ELSE "#dcdcaa"

\* int((80000 / max_tokens) * bar_width) is 880 in double arithmetic.
limit_x == bar_x + ((80000 * bar_width) \div max_tokens)

\* What create_frame draws for its arguments: the returned image, as the
\* record of everything the drawing depends on.
create_frame(s, t, strat, st, is_with_cm) ==
    [step          |-> s,
     tokens        |-> t,
     status        |-> st,
     is_with_cm    |-> is_with_cm,
     size          |-> <<1200, 200>>,
     font          |-> IF menloAvailable THEN "Menlo" ELSE "default",
     title         |-> IF is_with_cm THEN "WITH Context Management"
                                      ELSE "WITHOUT Context Management",
     title_color   |-> IF is_with_cm THEN "#4ec9b0" ELSE "#f48771",
     strategy_text |-> IF strat # None THEN strat ELSE None,
     status_color  |-> status_color(st),
     fill_width    |-> fill_width(t),
     fill_color    |-> fill_color(t),
     limit_x       |-> limit_x]

---------------------------------------------------------------------------
(* The script, statement by statement *)

InitCommon ==
    /\ pc = "import"
    /\ pilAvailable \in BOOLEAN
    /\ menloAvailable \in BOOLEAN
    /\ step = 0
    /\ tokens = 0
    /\ strategy = None
    /\ status = None
    /\ rendering = NoCall
    /\ calls = 0
    /\ frames = <<>>
    /\ gif = NoFile
    /\ writes = 0
    /\ stdout = <<>>
    /\ exitCode = -1

Init == InitCommon /\ tokens0 = StartTokens

InitSweep == InitCommon /\ tokens0 \in StartQuantities

\* Lines 7-9: the import succeeds; the module body runs on to main().
ImportOK ==
    /\ pc = "import"
    /\ pilAvailable
    /\ pc' = "main"
    /\ UNCHANGED <<pilAvailable, menloAvailable, tokens0, step, tokens, strategy,
                   status, rendering, calls, frames, gif, writes, stdout, exitCode>>

\* ImportFailed without the exit: the messages are printed and the script goes on.
ImportFailedNoExit ==
    /\ pc = "import"
    /\ ~pilAvailable
    /\ stdout' = stdout \o
         << <<"Pillow not installed. Install with: pip install Pillow", 0>>,
            <<"   Or use the HTML file: open docs/create-gif.html", 0>> >>
    /\ pc' = "main"
    /\ UNCHANGED <<pilAvailable, menloAvailable, tokens0, step, tokens, strategy,
                   status, rendering, calls, frames, gif, writes, exitCode>>

\* Lines 10-13: ImportError; two lines are printed and the process exits 1.
ImportFailed ==
    /\ pc = "import"
    /\ ~pilAvailable
    /\ stdout' = stdout \o
         << <<"Pillow not installed. Install with: pip install Pillow", 0>>,
            <<"   Or use the HTML file: open docs/create-gif.html", 0>> >>
    /\ exitCode' = 1
    /\ pc' = "exited"
    /\ UNCHANGED <<pilAvailable, menloAvailable, tokens0, step, tokens, strategy,
                   status, rendering, calls, frames, gif, writes>>

\* Lines 77-82: the banner, the empty frame list, the first loop's start.
MainStart ==
    /\ pc = "main"
    /\ stdout' = Append(stdout, <<"Creating animated GIF...", 0>>)
    /\ frames' = <<>>
    /\ tokens' = tokens0
    /\ step' = 0
    /\ pc' = "u_for"
    /\ UNCHANGED <<pilAvailable, menloAvailable, tokens0, strategy, status,
                   rendering, calls, gif, writes, exitCode>>

\* Line 83: `for step in range(1, 21)`; on exhaustion line 91 follows.
UnboundedFor ==
    /\ pc = "u_for"
    /\ IF step < LastStep
         THEN /\ step' = step + 1
              /\ pc' = "u_body"
         ELSE /\ step' = step
              /\ pc' = "m_init"
    /\ UNCHANGED <<pilAvailable, menloAvailable, tokens0, tokens, strategy, status,
                   rendering, calls, frames, gif, writes, stdout, exitCode>>

\* Lines 84-85.
UnboundedBody ==
    /\ pc = "u_body"
    /\ tokens' = tokens + Increment(step)
    /\ status' = StatusOf(tokens')
    /\ pc' = "u_call"
    /\ UNCHANGED <<pilAvailable, menloAvailable, tokens0, step, strategy,
                   rendering, calls, frames, gif, writes, stdout, exitCode>>

\* Line 86, the call: create_frame(step, tokens, None, status, False) begins.
UnboundedCall ==
    /\ pc = "u_call"
    /\ rendering' = [active |-> TRUE, step |-> step, tokens |-> tokens,
                     strategy |-> None, status |-> status, is_with_cm |-> FALSE]
    /\ calls' = calls + 1
    /\ pc' = "u_append"
    /\ UNCHANGED <<pilAvailable, menloAvailable, tokens0, step, tokens, strategy,
                   status, frames, gif, writes, stdout, exitCode>>

\* Line 86, the return and the append; lines 87-88, the break.
UnboundedAppend ==
    /\ pc = "u_append"
    /\ frames' = Append(frames, create_frame(rendering.step, rendering.tokens,
                          rendering.strategy, rendering.status, rendering.is_with_cm))
    /\ rendering' = NoCall
    /\ pc' = IF tokens > FailThreshold THEN "m_init" ELSE "u_for"
    /\ UNCHANGED <<pilAvailable, menloAvailable, tokens0, step, tokens, strategy,
                   status, calls, gif, writes, stdout, exitCode>>

\* MitigatedInit without the reset of tokens.
MitigatedInitNoReset ==
    /\ pc = "m_init"
    /\ step' = 0
    /\ pc' = "m_for"
    /\ UNCHANGED <<pilAvailable, menloAvailable, tokens0, tokens, strategy, status,
                   rendering, calls, frames, gif, writes, stdout, exitCode>>

\* Line 91: the second loop starts over from the same quantity.
MitigatedInit ==
    /\ pc = "m_init"
    /\ tokens' = tokens0
    /\ step' = 0
    /\ pc' = "m_for"
    /\ UNCHANGED <<pilAvailable, menloAvailable, tokens0, strategy, status,
                   rendering, calls, frames, gif, writes, stdout, exitCode>>

\* Line 92: `for step in range(1, 21)`; on exhaustion line 113 follows.
MitigatedFor ==
    /\ pc = "m_for"
    /\ IF step < LastStep
         THEN /\ step' = step + 1
              /\ pc' = "m_body"
         ELSE /\ step' = step
              /\ pc' = "save"
    /\ UNCHANGED <<pilAvailable, menloAvailable, tokens0, tokens, strategy, status,
                   rendering, calls, frames, gif, writes, stdout, exitCode>>

\* MitigatedBody with the status computed before the reduction chain.
MitigatedBodyStatusFirst ==
    /\ pc = "m_body"
    /\ LET r == Reduce(tokens + Increment(step), step) IN
         /\ tokens' = r.tokens
         /\ strategy' = r.strategy
         /\ status' = StatusOf(tokens + Increment(step))
    /\ pc' = "m_call"
    /\ UNCHANGED <<pilAvailable, menloAvailable, tokens0, step, rendering, calls,
                   frames, gif, writes, stdout, exitCode>>

\* MitigatedBody with the growth written as (1500 + step) * 100.
MitigatedBodyPrecedence ==
    /\ pc = "m_body"
    /\ LET r == Reduce(tokens + ((BaseIncrement + step) * StepIncrement), step) IN
         /\ tokens' = r.tokens
         /\ strategy' = r.strategy
         /\ status' = StatusOf(r.tokens)
    /\ pc' = "m_call"
    /\ UNCHANGED <<pilAvailable, menloAvailable, tokens0, step, rendering, calls,
                   frames, gif, writes, stdout, exitCode>>

\* Lines 93-109: growth, the reduction chain, then the status.
MitigatedBody ==
    /\ pc = "m_body"
    /\ LET r == Reduce(tokens + Increment(step), step) IN
         /\ tokens' = r.tokens
         /\ strategy' = r.strategy
         /\ status' = StatusOf(r.tokens)
    /\ pc' = "m_call"
    /\ UNCHANGED <<pilAvailable, menloAvailable, tokens0, step, rendering, calls,
                   frames, gif, writes, stdout, exitCode>>

\* Line 110, the call: create_frame(step, tokens, strategy, status, True).
MitigatedCall ==
    /\ pc = "m_call"
    /\ rendering' = [active |-> TRUE, step |-> step, tokens |-> tokens,
                     strategy |-> strategy, status |-> status, is_with_cm |-> TRUE]
    /\ calls' = calls + 1
    /\ pc' = "m_append"
    /\ UNCHANGED <<pilAvailable, menloAvailable, tokens0, step, tokens, strategy,
                   status, frames, gif, writes, stdout, exitCode>>

\* MitigatedAppend followed by the first loop's break.
MitigatedAppendBreaks ==
    /\ pc = "m_append"
    /\ frames' = Append(frames, create_frame(rendering.step, rendering.tokens,
                          rendering.strategy, rendering.status, rendering.is_with_cm))
    /\ rendering' = NoCall
    /\ pc' = IF tokens > FailThreshold THEN "save" ELSE "m_for"
    /\ UNCHANGED <<pilAvailable, menloAvailable, tokens0, step, tokens, strategy,
                   status, calls, gif, writes, stdout, exitCode>>

\* Line 110, the return and the append.
MitigatedAppend ==
    /\ pc = "m_append"
    /\ frames' = Append(frames, create_frame(rendering.step, rendering.tokens,
                          rendering.strategy, rendering.status, rendering.is_with_cm))
    /\ rendering' = NoCall
    /\ pc' = "m_for"
    /\ UNCHANGED <<pilAvailable, menloAvailable, tokens0, step, tokens, strategy,
                   status, calls, gif, writes, stdout, exitCode>>

\* SaveGif indented into the mitigated loop: one write after every append.
SaveGifInLoop ==
    /\ pc = "m_for"
    /\ writes < step
    /\ Len(frames) > 0
    /\ gif' = [exists |-> TRUE, frames |-> <<Head(frames)>> \o Tail(frames),
               duration |-> FrameDuration, loop |-> FrameLoop]
    /\ writes' = writes + 1
    /\ UNCHANGED <<pc, pilAvailable, menloAvailable, tokens0, step, tokens, strategy,
                   status, rendering, calls, frames, stdout, exitCode>>

\* Lines 113-120: frames[0].save(..., append_images=frames[1:], ...).
\* frames[0] of an empty list would raise; the list is never empty here.
SaveGif ==
    /\ pc = "save"
    /\ Len(frames) > 0
    /\ gif' = [exists |-> TRUE, frames |-> <<Head(frames)>> \o Tail(frames),
               duration |-> FrameDuration, loop |-> FrameLoop]
    /\ writes' = writes + 1
    /\ pc' = "report"
    /\ UNCHANGED <<pilAvailable, menloAvailable, tokens0, step, tokens, strategy,
                   status, rendering, calls, frames, stdout, exitCode>>

\* Lines 122-123 and the normal end of the process.
Report ==
    /\ pc = "report"
    /\ stdout' = stdout \o << <<"GIF created", 0>>, <<"frames", Len(frames)>> >>
    /\ exitCode' = 0
    /\ pc' = "done"
    /\ UNCHANGED <<pilAvailable, menloAvailable, tokens0, step, tokens, strategy,
                   status, rendering, calls, frames, gif, writes>>

Next ==
    \/ ImportOK
    \/ ImportFailed
    \/ MainStart
    \/ UnboundedFor
    \/ UnboundedBody
    \/ UnboundedCall
    \/ UnboundedAppend
    \/ MitigatedInit
    \/ MitigatedFor
    \/ MitigatedBody
    \/ MitigatedCall
    \/ MitigatedAppend
    \/ SaveGif
    \/ Report

Spec == Init /\ [][Next]_vars

SpecSweep == InitSweep /\ [][Next]_vars

---------------------------------------------------------------------------
(* Properties *)

\* Indices of the rendered frames of each trajectory, by the mode flag.
UFrames == {i \in 1..Len(frames) : ~frames[i].is_with_cm}
MFrames == {i \in 1..Len(frames) : frames[i].is_with_cm}

StatusesOf(S) == {frames[i].status : i \in S}
LabelsOf(S) == {frames[i].strategy_text : i \in S}

RECURSIVE SumIncrements(_)
SumIncrements(s) == IF s = 0 THEN 0 ELSE (1500 + 100 * s) + SumIncrements(s - 1)

\* C1: every frame rendered, in either trajectory, carries the status that
\* its own quantity determines: FAILED above 100000, WARNING above 80000 up
\* to 100000, OK otherwise; for a mitigated frame the quantity is the one
\* left after the step's reduction, which is the one the frame shows.
C1_StatusIsFunctionOfQuantity ==
    \A i \in 1..Len(frames) :
        LET q == frames[i].tokens
            st == frames[i].status
        IN  /\ (q > 100000) => (st = "FAILED")
            /\ (q > 80000 /\ q <= 100000) => (st = "WARNING")
            /\ (q <= 80000) => (st = "OK")

\* A finished run whose mitigated frames show all three statuses and whose
\* unbounded trajectory ended on a FAILED frame.
C1_Witness ==
    /\ pc = "done"
    /\ StatusesOf(MFrames) = {"OK", "WARNING", "FAILED"}
    /\ "FAILED" \in StatusesOf(UFrames)

\* C2: the mitigated frame of step s carries the previous quantity plus
\* 1500 + 100*s, reduced by the first rule that matches in the order
\* OFFLOAD (> 60000, s >= 5, 85%), SUMMARIZE (> 50000, s multiple of 5, 75%),
\* COMPACT (> 40000, s >= 3, 60%), FILTER (> 30000, 75%), each rounded down,
\* with that rule's label; with no rule matching it is unreduced and unlabelled.
C2_FirstMatchingRule ==
    \A i \in MFrames :
        LET s == frames[i].step
            prev == IF s = 1 THEN tokens0 ELSE frames[i - 1].tokens
            q == prev + 1500 + 100 * s
            a == q > 60000 /\ s >= 5
            b == q > 50000 /\ s % 5 = 0
            c == q > 40000 /\ s >= 3
            d == q > 30000
            got == <<frames[i].tokens, frames[i].strategy_text>>
        IN  /\ s \in 1..20
            /\ a => got = <<(85 * q) \div 100, "OFFLOAD">>
            /\ (~a /\ b) => got = <<(75 * q) \div 100, "SUMMARIZE">>
            /\ (~a /\ ~b /\ c) => got = <<(60 * q) \div 100, "COMPACT">>
            /\ (~a /\ ~b /\ ~c /\ d) => got = <<(75 * q) \div 100, "FILTER">>
            /\ (~a /\ ~b /\ ~c /\ ~d) => got = <<q, None>>

\* A finished mitigated trajectory in which each of the four rules fired at
\* some step and some step was left unreduced.
C2_Witness ==
    /\ pc = "done"
    /\ LabelsOf(MFrames) = {"OFFLOAD", "SUMMARIZE", "COMPACT", "FILTER", None}

\* C3: the unbounded trajectory starts at 1000; its frame for step s carries
\* 1000 plus the sum of 1500 + 100*i for i in 1..s; no frame follows a frame
\* above 100000; and it never runs past step 20.
C3_UnboundedTrajectory ==
    /\ (pc = "u_for" /\ step = 0) => tokens = 1000
    /\ \A i \in UFrames :
        /\ frames[i].step \in 1..20
        /\ frames[i].tokens = 1000 + SumIncrements(frames[i].step)
        /\ \A j \in UFrames : (j > i) => frames[i].tokens <= 100000
    /\ Cardinality(UFrames) <= 20
    /\ (pc \in {"u_for", "u_body", "u_call", "u_append"}) => step <= 20

\* The unbounded loop has run out and rendered its frame for step 20.
C3_Witness ==
    /\ pc = "m_init"
    /\ \E i \in UFrames : frames[i].step = 20 /\ frames[i].tokens = 52000

\* C4: by the time the unbounded loop is over, its statuses have escalated
\* to FAILED and it has stopped short of 20 steps.
C4_UnboundedEndsFailed ==
    (pc = "m_init") =>
        /\ "FAILED" \in StatusesOf(UFrames)
        /\ Cardinality(UFrames) < 20

\* C5: every rendered frame has a quantity >= 0 and a filled width equal to
\* quantity * 1100 / 100000 rounded down, capped at 1100, hence within 0..1100.
C5_FillWidthClamped ==
    \A i \in 1..Len(frames) :
        LET q == frames[i].tokens
            exact == (q * 1100) \div 100000
        IN  /\ q >= 0
            /\ frames[i].fill_width = (IF exact < 1100 THEN exact ELSE 1100)
            /\ frames[i].fill_width \in 0..1100

\* Both trajectories are rendered and the widest bar of the run, the 572
\* pixels of 52000, is among the frames.
C5_Witness ==
    /\ pc = "done"
    /\ \E i \in 1..Len(frames) : frames[i].tokens = 52000 /\ frames[i].fill_width = 572

\* C6: the saved artifact holds the unbounded trajectory's frames, between 1
\* and 20 of them, plus exactly the 20 mitigated frames of steps 1..20.
C6_FrameCount ==
    gif.exists =>
        LET g == gif.frames
            U == {i \in 1..Len(g) : ~g[i].is_with_cm}
            M == {i \in 1..Len(g) : g[i].is_with_cm}
        IN  /\ g = frames
            /\ Len(g) = Cardinality(U) + 20
            /\ Cardinality(M) = 20
            /\ {g[i].step : i \in M} = 1..20
            /\ Cardinality(U) \in 1..20

\* An artifact saved after the unbounded trajectory broke off early and the
\* mitigated one went through a FAILED quantity.
C6_Witness ==
    /\ gif.exists
    /\ Cardinality(UFrames) < 20
    /\ "FAILED" \in StatusesOf(MFrames)

\* C7: the frame list, and the artifact saved from it, is the unbounded
\* trajectory followed by the mitigated one, each in step order 1, 2, 3, ...
\* and each starting over from 1000 (so both first frames carry 2600).
C7_Concatenation ==
    LET nU == Cardinality(UFrames) IN
    /\ \A i \in UFrames : i <= nU /\ frames[i].step = i
    /\ \A i \in MFrames : i > nU /\ frames[i].step = i - nU
    /\ \A i \in 1..Len(frames) : (frames[i].step = 1) => frames[i].tokens = 2600
    /\ gif.exists => gif.frames = frames

\* The artifact has been saved with frames of both trajectories in it.
C7_Witness ==
    /\ gif.exists
    /\ UFrames # {}
    /\ MFrames # {}

\* C8: when the imaging library cannot be imported the process ends with a
\* non-zero status, having printed the line naming Pillow and the line naming
\* docs/create-gif.html and nothing else; no frame is ever rendered and no
\* file is ever written.
C8_ImportFailure ==
    (~pilAvailable) =>
        /\ pc \in {"import", "exited"}
        /\ calls = 0 /\ frames = <<>> /\ rendering = NoCall
        /\ writes = 0 /\ ~gif.exists
        /\ (pc = "exited") =>
              /\ exitCode # 0 /\ exitCode # -1
              /\ stdout = << <<"Pillow not installed. Install with: pip install Pillow", 0>>,
                             <<"   Or use the HTML file: open docs/create-gif.html", 0>> >>

\* The process has exited on the failed import.
C8_Witness == ~pilAvailable /\ pc = "exited" /\ exitCode = 1

\* C9: a create_frame call begins only when every earlier call has returned
\* and its frame is in the list; the file is written at most once, and the
\* write happens with no call in progress and with the whole of both
\* trajectories in the list: the unbounded one up to step 20 or to its first
\* quantity above 100000, and the mitigated one up to step 20.
C9_WriteOnceAfterAllFrames ==
    [][ /\ (calls' # calls) =>
              /\ ~rendering.active /\ rendering'.active
              /\ calls = Len(frames) /\ calls' = calls + 1
        /\ (Len(frames') # Len(frames)) =>
              /\ rendering.active /\ ~rendering'.active
              /\ Len(frames') = calls
        /\ (writes' # writes) =>
              /\ writes = 0 /\ writes' = 1
              /\ ~rendering.active
              /\ calls = Len(frames)
              /\ \E i \in UFrames : frames[i].step = 20 \/ frames[i].tokens > 100000
              /\ \E i \in MFrames : frames[i].step = 20
              /\ gif'.frames = frames
        /\ (writes' = writes) => gif' = gif
      ]_vars

\* The file has been written, once, with all forty frames of the script.
C9_Witness == writes = 1 /\ gif.exists /\ Len(gif.frames) = 40 /\ calls = 40

\* C10: every mitigated frame carries a quantity of at most 80000 and the
\* status OK.
C10_MitigatedStaysOK ==
    \A i \in MFrames :
        /\ frames[i].tokens <= 80000
        /\ frames[i].status = "OK"

\* All 20 mitigated frames are rendered and the reduction has fired.
C10_Witness ==
    /\ Cardinality(MFrames) = 20
    /\ "FILTER" \in LabelsOf(MFrames)

====
